---------------------------- MODULE Spec2Model ----------------------------
(***************************************************************************)
(* Model of the image crawler service (src/index.js): the /start job       *)
(* (source download, job status, event log, result set), the event stream  *)
(* /events/:jobId, the orchestrator crawlerForDomains (optional browser,   *)
(* p-queue admission) and the per-domain breadth-first traversal           *)
(* handleDomain.                                                           *)
(*                                                                         *)
(* Every action is one resumption of an async function: the settling of    *)
(* the promise it awaits followed by all synchronous code up to the next   *)
(* await.                                                                  *)
(***************************************************************************)
EXTENDS Integers, Sequences, FiniteSets, TLC

(***************************************************************************)
(* Bounds of the model.                                                    *)
(***************************************************************************)
MaxDomains == 3       \* domains in the source list
MaxConcurrency == 2   \* the concurrency parameter
MaxPages == 4         \* the maxPages parameter
MaxDepthBound == 2    \* the maxDepth parameter
MaxWork == 4          \* fetch and render attempts one job can make in all
\* The program retains 2000 events (line 124); the model retains EventCap of
\* them, so that the drop of the oldest event happens within the bounds.
EventCap == 2
MaxConns == 2         \* connections to /events/:jobId in the life of a job

(***************************************************************************)
(* Program constants.                                                      *)
(***************************************************************************)
ShortHtml == 50
ProgressEvery == 5

Null == [kind |-> "null"]

\* The element of a one-element set.  Body(x) written The({Body(x) : x \in {e}})
\* has e evaluated once, like a local constant of the code.
The(S) == CHOOSE x \in S : TRUE

(***************************************************************************)
(* Strings that are URLs or URL references.  A host name is a sequence of  *)
(* text pieces, so that String.endsWith is the suffix relation on pieces:  *)
(*   <<"a.com">>, <<"sub.", "a.com">>, <<"not", "a.com">>, <<"A.COM">>.     *)
(* An absolute URL string is  scheme://host path frag ; the seed           *)
(* "http://a.com" has the empty path.  A reference found in a document is  *)
(* an absolute URL string, a path reference ("/a", "/a#x"), a fragment     *)
(* reference ("#x") or a string the URL parser rejects.                    *)
(***************************************************************************)
Abs(scheme, host, path, frag) ==
  [kind |-> "abs", scheme |-> scheme, host |-> host, path |-> path, frag |-> frag]
PathRef(path, frag) ==
  [kind |-> "path", scheme |-> "", host |-> <<>>, path |-> path, frag |-> frag]
FragRef(frag) ==
  [kind |-> "frag", scheme |-> "", host |-> <<>>, path |-> "", frag |-> frag]
BadRef(n) ==
  [kind |-> "bad", scheme |-> "", host |-> <<>>, path |-> n, frag |-> ""]

\* String.prototype.toLowerCase on one piece of a host name.
LowerPiece(p) ==
  CASE p = "A.COM" -> "a.com"
    [] p = "B.COM" -> "b.com"
    [] p = "SUB."  -> "sub."
    [] OTHER       -> p

toLowerCase(h) == [k \in 1..Len(h) |-> LowerPiece(h[k])]

\* String.prototype.endsWith on host names.
endsWith(h, suffix) ==
  /\ Len(suffix) <= Len(h)
  /\ SubSeq(h, Len(h) - Len(suffix) + 1, Len(h)) = suffix

\* The pieces that end in a dot: a host that follows one starts a new label.
DotPieces == {"sub.", "SUB."}

\* h is host or a subdomain of host (host preceded by a label boundary).
EqualOrSubdomain(h, host) ==
  \/ h = host
  \/ /\ endsWith(h, host)
     /\ Len(h) > Len(host)
     /\ h[Len(h) - Len(host)] \in DotPieces

\* The WHATWG URL parser's canonical path of a special-scheme URL: the empty
\* path becomes "/".
CanonPath(scheme, path) ==
  IF scheme \in {"http", "https"} /\ path = "" THEN "/" ELSE path

\* The parser's canonical host: lower case.
CanonHost(h) == toLowerCase(h)

\* new URL(ref, base): the parsed URL, or Null when the parser throws.
\* base is always an absolute URL string here.
ParseUrl(ref, base) ==
  CASE ref.kind = "abs" ->
         Abs(ref.scheme, CanonHost(ref.host), CanonPath(ref.scheme, ref.path), ref.frag)
    [] ref.kind = "path" ->
         IF base.kind = "abs"
           THEN Abs(base.scheme, CanonHost(base.host), CanonPath(base.scheme, ref.path), ref.frag)
           ELSE Null
    [] ref.kind = "frag" ->
         IF base.kind = "abs"
           THEN Abs(base.scheme, CanonHost(base.host), CanonPath(base.scheme, base.path), ref.frag)
           ELSE Null
    [] OTHER -> Null

\* u.href.split('#')[0]
StripFragment(u) == [u EXCEPT !.frag = ""]

normalizeUrlRaw(u, base) == u
\* normalizeUrl (lines 345-351): the href of the resolved URL, or the raw
\* string when resolution throws.
normalizeUrl(u, base) ==
  LET p == ParseUrl(u, base) IN IF p = Null THEN u ELSE p


(***************************************************************************)
(* Documents.  An HTML text is abstracted to its length and to what        *)
(* cheerio finds in it: the set of raw image references and the raw a[href]*)
(* values in document order, without repetition (a JS Set).                *)
(***************************************************************************)
Doc(len, images, links) ==
  [kind |-> "doc", len |-> len, images |-> images, links |-> links]

EmptyDoc == Doc(0, {}, << >>)
ShortDoc == Doc(20, {PathRef("/s.png", "")}, <<PathRef("/s", "")>>)
BlankDoc == Doc(200, {}, << >>)

\* The documents of the modelled web, by canonical path; every host serves
\* the same tree.
RootDoc ==
  Doc(200,
      { PathRef("/i.png", ""),
        Abs("http", <<"A.COM">>, "/i.png", ""),
        Abs("https", <<"cdn">>, "", ""),
        Abs("https", <<"cdn">>, "/", ""),
        BadRef("img") },
      << PathRef("/a", ""),
         PathRef("/a", "#x"),
         Abs("http", <<"not", "a.com">>, "/", ""),
         Abs("http", <<"SUB.", "a.com">>, "/a", ""),
         Abs("ftp", <<"a.com">>, "/f", ""),
         BadRef("link"),
         Abs("http", <<"b.com">>, "", ""),
         PathRef("/", "") >>)
ADoc ==
  Doc(200,
      { PathRef("/i.png", ""), PathRef("/j.png", "#v") },
      << FragRef("#top"), PathRef("/b", ""), PathRef("/a", "") >>)

PageDoc(u) ==
  CASE u.path \in {"", "/"} -> RootDoc
    [] u.path = "/a"        -> ADoc
    [] OTHER                -> BlankDoc

\* What await r.text() can deliver for url: the page, a short text or the
\* empty text.
Bodies(u) == {PageDoc(u), ShortDoc, EmptyDoc}

\* What await page.content() delivers: the serialized document, never empty.
RenderedDoc(u) == PageDoc(u)

\* !html
Falsy(html) == html = Null \/ html.len = 0

\* (!html || html.length < 50)
NeedsRender(html) == Falsy(html) \/ html.len < ShortHtml

\* extractImagesAndLinks (lines 301-343) on the abstraction of a document.
extractImagesAndLinks(html, baseUrl) ==
  [images |-> html.images, links |-> html.links]


(***************************************************************************)
(* State.                                                                  *)
(***************************************************************************)
VARIABLES
  domains,            \* the lines of the source list (known once it is read)
  concurrency,        \* req.query.concurrency
  maxPagesPerDomain,  \* req.query.maxPages
  maxDepth,           \* req.query.maxDepth
  playwright,         \* whether require('playwright') succeeded
  jobPc,              \* where the background job of /start stands
  status,             \* JOBS[jobId].status
  events,             \* JOBS[jobId].events
  results,            \* JOBS[jobId].results
  browser,            \* the browser of crawlerForDomains: "null", "open", "closed"
  processedDomains,   \* the counter of crawlerForDomains
  nextDomain,         \* index of the first domain p-queue has not started
  dom,                \* per domain: the locals of its handleDomain call
  emitted,            \* history: the types of the events ever passed to sendEvent
  srcOutcome,         \* history: how the download of the source list ended
  hist,               \* history: the domain-done and done events, the calls of
                      \* chromium.launch and browser.close
  sseRes,             \* JOBS[jobId].sseRes: 0 for null, or a connection
  conn                \* per connection to /events/:jobId: its state, what was
                      \* written to its response and, as history, how much of
                      \* that was replay and what was sent since it attached

config == <<domains, concurrency, maxPagesPerDomain, maxDepth, playwright>>
vars == <<domains, concurrency, maxPagesPerDomain, maxDepth, playwright,
          jobPc, status, events, results, browser, processedDomains,
          nextDomain, dom, emitted, srcOutcome, hist, sseRes, conn>>

\* The source list is the first lines of b.com, a.com, A.COM, b.com, ...
DomainList ==
  [k \in 1..MaxDomains |->
     CASE k % 3 = 1 -> "b.com" [] k % 3 = 2 -> "a.com" [] OTHER -> "A.COM"]

NoUrl == [kind |-> "none", scheme |-> "", host |-> <<>>, path |-> "", frag |-> ""]

\* An event object; the fields a type does not carry are blank.
Evt(type, msg, host, url, n) ==
  [type |-> type, msg |-> msg, domain |-> host, url |-> url, n |-> n]
Info(msg) == Evt("info", msg, <<>>, NoUrl, 0)

\* sendEvent (lines 119-125): append, dropping the oldest beyond the cap.
sendEvent(evs, evt) ==
  LET a == Append(evs, evt) IN IF Len(a) > EventCap THEN Tail(a) ELSE a

RECURSIVE sendEvents(_, _)
sendEvents(evs, todo) ==
  IF todo = << >> THEN evs
  ELSE sendEvents(sendEvent(evs, Head(todo)), Tail(todo))

(***************************************************************************)
(* handleDomain (lines 190-285).  The locals of one call are a record;     *)
(* enq, deq, inOrder, fetched and page are history fields: the entries     *)
(* link admission ever pushed, the depths of the entries taken off         *)
(* toVisit, whether each was taken while nothing shallower was left, the   *)
(* URLs fetched, and what the last completed iteration did; renderError is *)
(* the message of the error the render fallback of the iteration caught;   *)
(* contexts counts the browser contexts the call opened and did not close; *)
(* progress holds the pagesVisited values its domain-progress events       *)
(* carried, dones the number of domain-done events it emitted.             *)
(***************************************************************************)
NoPage == [url |-> NoUrl, depth |-> 0, ct |-> "none", renderer |-> FALSE, links |-> 0,
           images |-> {}, enqueued |-> 0, before |-> 0, after |-> 0,
           renderError |-> "none"]

IdleDomain ==
  [pc |-> "idle", host |-> <<>>, url |-> NoUrl, depth |-> 0, toVisit |-> << >>,
   seen |-> {}, pagesVisited |-> 0, html |-> Null, ct |-> "none", contexts |-> 0,
   renderError |-> "none", progress |-> {}, dones |-> 0,
   enq |-> {}, deq |-> << >>, inOrder |-> TRUE, fetched |-> << >>, page |-> NoPage]

\* lines 191-195
NewDomain(domain) ==
  [IdleDomain EXCEPT !.pc = "loop",
                     !.host = <<LowerPiece(domain)>>,
                     !.toVisit = <<[url |-> Abs("http", <<domain>>, "", ""), depth |-> 0]>>]

\* The result of a piece of synchronous code: the new locals, the images
\* handed to onFoundImage and the events handed to onEvent, in order.
Effect(d, imgs, evs) == [d |-> d, imgs |-> imgs, evs |-> evs]

\* line 197: the loop condition
LoopGuardOffByOne(toVisit, pagesVisited) ==
  Len(toVisit) > 0 /\ pagesVisited <= maxPagesPerDomain
LoopGuard(toVisit, pagesVisited) ==
  Len(toVisit) > 0 /\ pagesVisited < maxPagesPerDomain

\* line 199
AlreadySeenNever(seen, url) == FALSE
AlreadySeen(seen, url) == url \in seen

\* line 198: toVisit.shift()
ShiftPop(toVisit) == [entry |-> toVisit[Len(toVisit)], rest |-> SubSeq(toVisit, 1, Len(toVisit) - 1)]
Shift(toVisit) == [entry |-> Head(toVisit), rest |-> Tail(toVisit)]

\* lines 197-203: from the loop condition to the await of fetch (pc "fetch"),
\* or out of the loop (pc "exit").
RECURSIVE WhileLoop(_, _, _)
WhileLoop(d, imgs, evs) ==
  IF ~LoopGuard(d.toVisit, d.pagesVisited)
    THEN Effect([d EXCEPT !.pc = "exit"], imgs, evs)
    ELSE LET s  == Shift(d.toVisit)
             e  == s.entry
             d1 == [d EXCEPT !.toVisit = s.rest,
                             !.deq = Append(@, e.depth),
                             !.inOrder = @ /\ \A k \in DOMAIN s.rest : e.depth <= s.rest[k].depth]
         IN  IF AlreadySeen(d.seen, e.url)
               THEN The({WhileLoop(x, imgs, evs) : x \in {d1}})
               ELSE Effect([d1 EXCEPT !.seen = @ \cup {e.url},
                                      !.url = e.url,
                                      !.depth = e.depth,
                                      !.html = Null,
                                      !.ct = "none",
                                      !.renderError = "none",
                                      !.pc = "fetch",
                                      !.fetched = Append(@, e.url)],
                           imgs,
                           Append(evs, Evt("progress", "fetching", d.host, e.url, e.depth)))

\* line 264: the test a resolved link must pass
Admit(u, host) ==
  /\ u.scheme \in {"http", "https"}
  /\ endsWith(toLowerCase(u.host), host)

\* line 259
DepthGuardInclusive(depth) == depth <= maxDepth
DepthGuard(depth) == depth < maxDepth

\* lines 260-273: the entries pushed for the links of one page, in order
RECURSIVE Admitted(_, _, _, _, _)
Admitted(links, url, depth, host, seen) ==
  IF links = << >> THEN << >>
  ELSE LET u    == ParseUrl(Head(links), url)
           rest == Admitted(Tail(links), url, depth, host, seen)
       IN  IF u # Null /\ Admit(u, host) /\ StripFragment(u) \notin seen
             THEN <<[url |-> StripFragment(u), depth |-> depth + 1]>> \o rest
             ELSE rest

Range(f) == {f[x] : x \in DOMAIN f}

\* line 246: pagesVisited++ for a page without content
CountEmptyPageNot(pagesVisited) == pagesVisited
CountEmptyPage(pagesVisited) == pagesVisited + 1

\* lines 245-281: the rest of an iteration once html is settled, and on to
\* the next await.
ProcessPage(d, evs) ==
  IF Falsy(d.html)
    THEN WhileLoop([d EXCEPT !.pagesVisited = CountEmptyPage(@),
                             !.page = [url |-> d.url, depth |-> d.depth, ct |-> d.ct,
                                       renderer |-> browser = "open", links |-> 0,
                                       images |-> {}, enqueued |-> 0,
                                       before |-> d.pagesVisited, after |-> d.pagesVisited + 1,
                                       renderError |-> d.renderError]],
                   {}, evs)
    ELSE LET ex    == extractImagesAndLinks(d.html, d.url)
             imgs  == {normalizeUrl(img, d.url) : img \in ex.images}
             new   == IF DepthGuard(d.depth)
                        THEN Admitted(ex.links, d.url, d.depth, d.host, d.seen)
                        ELSE << >>
             pv    == d.pagesVisited + 1
             d1    == [d EXCEPT !.toVisit = @ \o new,
                                !.enq = @ \cup Range(new),
                                !.pagesVisited = pv,
                                !.progress = IF pv % ProgressEvery = 0 THEN @ \cup {pv} ELSE @,
                                !.page = [url |-> d.url, depth |-> d.depth, ct |-> d.ct,
                                          renderer |-> browser = "open",
                                          links |-> Len(ex.links),
                                          images |-> imgs, enqueued |-> Len(new),
                                          before |-> d.pagesVisited, after |-> pv,
                                          renderError |-> d.renderError]]
             evs1  == IF pv % ProgressEvery = 0
                        THEN Append(evs, Evt("domain-progress", "", d.host, NoUrl, pv))
                        ELSE evs
         IN  The({WhileLoop(x, imgs, evs1) : x \in {d1}})

\* line 231: after the fetch, render or go on
AfterFetch(d, evs) ==
  IF NeedsRender(d.html) /\ browser = "open"
    THEN Effect([d EXCEPT !.pc = "newContext"], {}, evs)
    ELSE ProcessPage(d, evs)


(***************************************************************************)
(* crawlerForDomains (lines 159-299) and p-queue.  The part of the state   *)
(* that synchronous code of the orchestrator and of the domain tasks       *)
(* changes is gathered in a record, so that a loop over the domains is a   *)
(* function of it.                                                         *)
(***************************************************************************)
Job == [dom |-> dom, events |-> events, results |-> results,
        processedDomains |-> processedDomains, nextDomain |-> nextDomain,
        emitted |-> emitted, hist |-> hist, sseRes |-> sseRes, conn |-> conn]

\* The history before anything happened: doneLog holds, in emission order,
\* the processedDomains value of every domain-done event, done the count of
\* every done event; launches and closes count the calls.
NoHist == [doneLog |-> << >>, done |-> << >>, launches |-> 0, closes |-> 0]

\* A connection to /events/:jobId (lines 13-36) that was not made yet
NoConn == [state |-> "none", stream |-> << >>, replayed |-> 0, since |-> << >>]

\* lines 126-132: the events evs, sent one after the other in one piece of
\* synchronous code, are written to the connection sseRes holds, if any; as
\* history, every open connection notes them as sent since it attached
WriteSse(conns, res, evs) ==
  [c \in DOMAIN conns |->
     [conns[c] EXCEPT !.stream = IF res = c THEN @ \o evs ELSE @,
                      !.since = IF conns[c].state = "open" THEN @ \o evs ELSE @]]

\* onEvent (line 93): the events evs are sent, in order
Emit(J, evs) ==
  [J EXCEPT !.events = sendEvents(@, evs),
            !.emitted = @ \cup {evs[k].type : k \in DOMAIN evs},
            !.conn = WriteSse(@, J.sseRes, evs)]

\* line 283: processedDomains++
IncrementLocal(n) == 1
Increment(n) == n + 1

\* The synchronous code eff of domain i lands: its images go to the result
\* set (line 94), its events to the log (line 93); when it left the loop,
\* lines 283-284 run and the task's promise settles.
Land(J, i, eff) ==
  LET exit == eff.d.pc = "exit"
      n    == Increment(J.processedDomains)
  IN  Emit([J EXCEPT
              !.dom[i] = IF exit THEN [eff.d EXCEPT !.pc = "settled", !.dones = @ + 1]
                                 ELSE eff.d,
              !.processedDomains = IF exit THEN n ELSE @,
              !.hist.doneLog = IF exit THEN Append(@, n) ELSE @,
              !.results = @ \cup eff.imgs],
           IF exit
             THEN Append(eff.evs, Evt("domain-done", "", eff.d.host, NoUrl, n))
             ELSE eff.evs)

\* p-queue's count of tasks started and not yet settled
Pending(J) == Cardinality({i \in DOMAIN J.dom : J.dom[i].pc \notin {"idle", "done"}})

\* p-queue starts a task only below its concurrency (line 169)
HasSlotInclusive(J) == Pending(J) <= concurrency
HasSlot(J) == Pending(J) < concurrency

\* p-queue starts the next queued task: handleDomain runs to its first await
StartNext(J) ==
  LET i == J.nextDomain
  IN  The({Land([J EXCEPT !.nextDomain = i + 1], i, eff) :
             eff \in {WhileLoop(NewDomain(domains[i]), {}, << >>)}})

\* lines 288-290: every domain is added; p-queue starts those it has a slot for
RECURSIVE DispatchAll(_)
DispatchAll(J) ==
  IF J.nextDomain <= Len(domains) /\ HasSlot(J)
    THEN The({DispatchAll(StartNext(j)) : j \in {J}})
    ELSE J

Commit(J) ==
  \E j \in {J} :
    /\ dom' = j.dom
    /\ events' = j.events
    /\ results' = j.results
    /\ processedDomains' = j.processedDomains
    /\ nextDomain' = j.nextDomain
    /\ emitted' = j.emitted
    /\ hist' = j.hist
    /\ sseRes' = j.sseRes
    /\ conn' = j.conn

(***************************************************************************)
(* The background job of /start (lines 62-105).                            *)
(***************************************************************************)
\* lines 49-64: the job as /start leaves it, its first event sent
Created ==
  /\ jobPc = "fetchSource"
  /\ status = "queued"
  /\ events = sendEvent(<< >>, Info("downloading source"))
  /\ emitted = {"info"}
  /\ results = {}
  /\ browser = "null"
  /\ processedDomains = 0
  /\ nextDomain = 1
  /\ dom = [i \in 1..Len(domains) |-> IdleDomain]
  /\ srcOutcome = "pending"
  /\ hist = NoHist
  /\ sseRes = 0
  /\ conn = [c \in 1..MaxConns |-> NoConn]

Init ==
  /\ domains \in {SubSeq(DomainList, 1, n) : n \in 0..MaxDomains}
  /\ concurrency \in 1..MaxConcurrency
  /\ maxPagesPerDomain \in 1..MaxPages
  /\ maxDepth \in 0..MaxDepthBound
  /\ playwright \in BOOLEAN
  /\ Len(domains) * maxPagesPerDomain * (IF playwright THEN 2 ELSE 1) <= MaxWork
  /\ Created

JobFailsStatusKept(outcome, msg) ==
  /\ Commit(Emit(Job, <<Evt("error", msg, <<>>, NoUrl, 0)>>))
  /\ UNCHANGED status
  /\ jobPc' = "failed"
  /\ srcOutcome' = outcome
  /\ UNCHANGED <<config, browser>>

\* lines 100-104, and 75-79: the job fails with an error event
JobFails(outcome, msg) ==
  /\ Commit(Emit(Job, <<Evt("error", msg, <<>>, NoUrl, 0)>>))
  /\ status' = "failed"
  /\ jobPc' = "failed"
  /\ srcOutcome' = outcome
  /\ UNCHANGED <<config, browser>>

\* line 74: fetch(fetchUrl) rejects
SourceFetchError ==
  /\ jobPc = "fetchSource"
  /\ JobFails("error", "exception")

\* line 75: r.ok
SourceUsableAlways(ok) == TRUE
SourceUsable(ok) == ok

\* line 74 resolves: a response that is not ok fails the job (lines 75-79),
\* of one that is ok the body is awaited (line 80)
SourceResponse(ok) ==
  /\ jobPc = "fetchSource"
  /\ IF SourceUsable(ok)
       THEN /\ jobPc' = "sourceText"
            /\ srcOutcome' = IF ok THEN "ok" ELSE "notok"
            /\ UNCHANGED <<config, status, events, results, browser,
                           processedDomains, nextDomain, dom, emitted, hist,
                           sseRes, conn>>
       ELSE JobFails("notok", "source status")

\* line 80: r.text() rejects
SourceTextError ==
  /\ jobPc = "sourceText"
  /\ JobFails(srcOutcome, "exception")

\* lines 81-84 and 159-187: the list is read, the job runs, crawlerForDomains
\* starts; with playwright it awaits the launch, without it goes on to
\* dispatch
SourceTextOk ==
  /\ jobPc = "sourceText"
  /\ status' = "running"
  /\ LET J == Emit(Job, <<Info("domains loaded"), Info("crawl start")>>)
     IN  IF playwright
           THEN /\ jobPc' = "launch"
                /\ Commit([J EXCEPT !.hist.launches = @ + 1])
           ELSE /\ jobPc' = "running"
                /\ Commit(DispatchAll(Emit(J, <<Info("rendering off")>>)))
  /\ UNCHANGED <<config, browser, srcOutcome>>

\* lines 179-180 and 288-292: the browser is launched, the domains dispatched
LaunchOk ==
  /\ jobPc = "launch"
  /\ browser' = "open"
  /\ jobPc' = "running"
  /\ Commit(DispatchAll(Emit(Job, <<Info("rendering on")>>)))
  /\ UNCHANGED <<config, status, srcOutcome>>

\* lines 181-184 and 288-292: the launch throws, the job goes on without
LaunchError ==
  /\ jobPc = "launch"
  /\ browser' = "null"
  /\ jobPc' = "running"
  /\ Commit(DispatchAll(Emit(Job, <<Info("rendering unusable")>>)))
  /\ UNCHANGED <<config, status, srcOutcome>>

\* What is left of a call of handleDomain that returned: its locals are
\* gone, the browser contexts it did not close are not.
Returned(d) ==
  [IdleDomain EXCEPT !.pc = "done", !.host = d.host, !.contexts = d.contexts,
                     !.dones = d.dones]

\* p-queue, after the promise of domain i settled: the slot is free and the
\* next queued domain, if any, starts
QueueNext(i) ==
  /\ i \in DOMAIN dom
  /\ dom[i].pc = "settled"
  /\ LET J == [Job EXCEPT !.dom[i] = Returned(@)]
     IN  Commit(IF J.nextDomain <= Len(domains) /\ HasSlot(J) THEN StartNext(J) ELSE J)
  /\ UNCHANGED <<config, jobPc, status, browser, srcOutcome>>

\* lines 298 and 97-98: crawlerForDomains returns, the job is done
JobDone ==
  /\ status' = "done"
  /\ jobPc' = "done"
  /\ Commit(Emit([Job EXCEPT !.hist.done = Append(@, Cardinality(results))],
                 <<Info("all domains processed"),
                   Evt("done", "", <<>>, NoUrl, Cardinality(results))>>))

\* line 292: the queue is idle, no task queued and none running
AllSettledNoWait == TRUE
AllSettled == nextDomain > Len(domains) /\ \A i \in DOMAIN dom : dom[i].pc = "done"

\* line 294: if (browser)
MustCloseNever(b) == FALSE
MustClose(b) == b = "open"

\* line 292-296: queue.onIdle() resolves; an open browser is closed first
QueueIdle ==
  /\ jobPc = "running"
  /\ AllSettled
  /\ IF MustClose(browser)
       THEN /\ jobPc' = "closing"
            /\ hist' = [hist EXCEPT !.closes = @ + 1]
            /\ UNCHANGED <<status, events, results, processedDomains, nextDomain, dom,
                           emitted, sseRes, conn>>
       ELSE JobDone
  /\ UNCHANGED <<config, browser, srcOutcome>>

\* line 295: browser.close() resolves
BrowserCloseOk ==
  /\ jobPc = "closing"
  /\ browser' = "closed"
  /\ JobDone
  /\ UNCHANGED <<config, srcOutcome>>

\* line 295: browser.close() rejects; catch(e) {} swallows it
BrowserCloseError ==
  /\ jobPc = "closing"
  /\ UNCHANGED browser
  /\ JobDone
  /\ UNCHANGED <<config, srcOutcome>>


(***************************************************************************)
(* The awaits of handleDomain.                                             *)
(***************************************************************************)
Warn(d, msg) == Evt("warn", msg, d.host, d.url, 0)

\* The synchronous code eff of domain i follows the settled await
Resume(i, eff) ==
  /\ \E e \in {eff} : Commit(Land(Job, i, e))
  /\ UNCHANGED <<config, jobPc, status, browser, srcOutcome>>

\* line 214 rejects: lines 225-228, then on from line 231
FetchError(i) ==
  /\ i \in DOMAIN dom
  /\ dom[i].pc = "fetch"
  /\ Resume(i, AfterFetch([dom[i] EXCEPT !.html = Null, !.ct = "none"],
                          <<Warn(dom[i], "fetch error")>>))

\* The content-type headers of the modelled responses
ContentTypes == {"text/html", "image/png"}

\* line 219: ct.includes('text/html')
IsHtml(ct) == ct = "text/html"

\* line 214 resolves: lines 215-224; an HTML response awaits its text
FetchResponse(i, ok, ct) ==
  /\ i \in DOMAIN dom
  /\ dom[i].pc = "fetch"
  /\ LET evs == IF ok THEN << >> ELSE <<Warn(dom[i], "http status")>>
     IN  IF IsHtml(ct)
           THEN Resume(i, Effect([dom[i] EXCEPT !.pc = "text", !.ct = ct], {}, evs))
           ELSE Resume(i, AfterFetch([dom[i] EXCEPT !.html = Null, !.ct = ct], evs))

\* line 220 resolves
TextOk(i, body) ==
  /\ i \in DOMAIN dom
  /\ dom[i].pc = "text"
  /\ body \in Bodies(dom[i].url)
  /\ Resume(i, AfterFetch([dom[i] EXCEPT !.html = body], << >>))

\* line 220 rejects: lines 225-228
TextError(i) ==
  /\ i \in DOMAIN dom
  /\ dom[i].pc = "text"
  /\ Resume(i, AfterFetch([dom[i] EXCEPT !.html = Null],
                          <<Warn(dom[i], "fetch error")>>))

\* lines 240-242: a render step threw; html keeps its value
RenderFailed(i, message) ==
  Resume(i, ProcessPage([dom[i] EXCEPT !.renderError = message],
                        <<Warn(dom[i], message)>>))

\* line 233
NewContextOk(i) ==
  /\ i \in DOMAIN dom
  /\ dom[i].pc = "newContext"
  /\ Resume(i, Effect([dom[i] EXCEPT !.pc = "newPage", !.contexts = @ + 1], {}, << >>))

NewContextError(i) ==
  /\ i \in DOMAIN dom
  /\ dom[i].pc = "newContext"
  /\ RenderFailed(i, "render failed: newContext")

\* line 234
NewPageOk(i) ==
  /\ i \in DOMAIN dom
  /\ dom[i].pc = "newPage"
  /\ Resume(i, Effect([dom[i] EXCEPT !.pc = "goto"], {}, << >>))

NewPageError(i) ==
  /\ i \in DOMAIN dom
  /\ dom[i].pc = "newPage"
  /\ RenderFailed(i, "render failed: newPage")

\* line 235: the navigation settles; its failure is swallowed by catch
GotoSettled(i) ==
  /\ i \in DOMAIN dom
  /\ dom[i].pc = "goto"
  /\ Resume(i, Effect([dom[i] EXCEPT !.pc = "content"], {}, << >>))

\* line 236
ContentOk(i) ==
  /\ i \in DOMAIN dom
  /\ dom[i].pc = "content"
  /\ Resume(i, Effect([dom[i] EXCEPT !.pc = "pageClose", !.html = RenderedDoc(dom[i].url)],
                      {}, << >>))

ContentError(i) ==
  /\ i \in DOMAIN dom
  /\ dom[i].pc = "content"
  /\ RenderFailed(i, "render failed: content")

\* line 237
PageCloseOk(i) ==
  /\ i \in DOMAIN dom
  /\ dom[i].pc = "pageClose"
  /\ Resume(i, Effect([dom[i] EXCEPT !.pc = "contextClose"], {}, << >>))

PageCloseError(i) ==
  /\ i \in DOMAIN dom
  /\ dom[i].pc = "pageClose"
  /\ RenderFailed(i, "render failed: pageClose")

\* lines 238-239
ContextCloseOk(i) ==
  /\ i \in DOMAIN dom
  /\ dom[i].pc = "contextClose"
  /\ Resume(i, ProcessPage([dom[i] EXCEPT !.contexts = @ - 1],
                           <<Evt("info", "rendered by browser", dom[i].host, dom[i].url, 0)>>))

ContextCloseError(i) ==
  /\ i \in DOMAIN dom
  /\ dom[i].pc = "contextClose"
  /\ RenderFailed(i, "render failed: contextClose")

Tasks == 1..MaxDomains

Next ==
  \/ SourceFetchError
  \/ \E ok \in BOOLEAN : SourceResponse(ok)
  \/ SourceTextError
  \/ SourceTextOk
  \/ LaunchOk
  \/ LaunchError
  \/ \E i \in Tasks : FetchError(i)
  \/ \E i \in Tasks, ok \in BOOLEAN, ct \in ContentTypes : FetchResponse(i, ok, ct)
  \/ \E i \in Tasks, body \in {RootDoc, ADoc, BlankDoc, ShortDoc, EmptyDoc} : TextOk(i, body)
  \/ \E i \in Tasks : TextError(i)
  \/ \E i \in Tasks : NewContextOk(i)
  \/ \E i \in Tasks : NewContextError(i)
  \/ \E i \in Tasks : NewPageOk(i)
  \/ \E i \in Tasks : NewPageError(i)
  \/ \E i \in Tasks : GotoSettled(i)
  \/ \E i \in Tasks : ContentOk(i)
  \/ \E i \in Tasks : ContentError(i)
  \/ \E i \in Tasks : PageCloseOk(i)
  \/ \E i \in Tasks : PageCloseError(i)
  \/ \E i \in Tasks : ContextCloseOk(i)
  \/ \E i \in Tasks : ContextCloseError(i)
  \/ \E i \in Tasks : QueueNext(i)
  \/ QueueIdle
  \/ BrowserCloseOk
  \/ BrowserCloseError

Spec == Init /\ [][Next]_vars

(***************************************************************************)
(* The event stream /events/:jobId (lines 13-36).  The connections of a    *)
(* job are numbered in the order they are made.                            *)
(***************************************************************************)
Conns == 1..MaxConns

\* lines 25-30: the handler replays the log and takes the sseRes slot
Attach(c) ==
  /\ c \in DOMAIN conn
  /\ conn[c].state = "none"
  /\ \A b \in DOMAIN conn : b < c => conn[b].state # "none"
  /\ conn' = [conn EXCEPT ![c] = [state |-> "open", stream |-> events,
                                  replayed |-> Len(events), since |-> << >>]]
  /\ sseRes' = c
  /\ UNCHANGED <<config, jobPc, status, events, results, browser, processedDomains,
                 nextDomain, dom, emitted, srcOutcome, hist>>

\* lines 33-35: the close handler of connection c
Close(c) ==
  /\ c \in DOMAIN conn
  /\ conn[c].state = "open"
  /\ conn' = [conn EXCEPT ![c].state = "closed"]
  /\ sseRes' = 0
  /\ UNCHANGED <<config, jobPc, status, events, results, browser, processedDomains,
                 nextDomain, dom, emitted, srcOutcome, hist>>

\* The jobs whose event stream is followed: at most one domain, one page
ObserverInit ==
  /\ Init
  /\ Len(domains) <= 1
  /\ maxPagesPerDomain = 1
  /\ maxDepth = 0
  /\ concurrency = 1

ObserverNext ==
  \/ Next
  \/ \E c \in Conns : Attach(c)
  \/ \E c \in Conns : Close(c)

ObserverSpec == ObserverInit /\ [][ObserverNext]_vars

(***************************************************************************)
(* Jobs of one domain whose page budget is the period of the               *)
(* domain-progress event (line 278); a.com has that many pages within      *)
(* depth 1.                                                                *)
(***************************************************************************)
ProgressInit ==
  /\ domains = <<"a.com">>
  /\ concurrency = 1
  /\ maxPagesPerDomain = ProgressEvery
  /\ maxDepth = 1
  /\ playwright \in BOOLEAN
  /\ Created

ProgressSpec == ProgressInit /\ [][Next]_vars

\* Every network and render call eventually returns or fails: a job with an
\* await outstanding does not stand still.
FairSpec == Spec /\ WF_vars(Next)


(***************************************************************************)
(* Properties.                                                             *)
(***************************************************************************)
Started(i) == dom[i].pc \notin {"idle", "done"}
Depths(entries) == {entries[k].depth : k \in DOMAIN entries}
Seed(i) == [url |-> Abs("http", <<domains[i]>>, "", ""), depth |-> 0]

\* C1: in every state, also when the traversal loop has ended, the
\* pagesVisited counter of every domain is at most maxPagesPerDomain,
\* whatever the fetches returned.
C1_PageBudget ==
  \A i \in DOMAIN dom : dom[i].pagesVisited <= maxPagesPerDomain

\* A traversal that ended on its budget with entries left in the frontier,
\* after a failed fetch.
C1_Witness ==
  \E i \in DOMAIN dom :
    /\ dom[i].pc = "settled"
    /\ dom[i].pagesVisited = maxPagesPerDomain
    /\ maxPagesPerDomain >= 2
    /\ dom[i].toVisit # << >>
    /\ dom[i].page.ct = "none"

\* C2: every entry of a frontier, the seed and every entry link admission
\* ever pushed, has a depth from 0 to maxDepth; with maxDepth = 0 nothing is
\* ever pushed and the frontier holds at most the seed.
C2_DepthBound ==
  \A i \in DOMAIN dom :
    /\ Depths(dom[i].toVisit) \subseteq 0..maxDepth
    /\ {e.depth : e \in dom[i].enq} \subseteq 1..maxDepth
    /\ maxDepth = 0 => /\ dom[i].enq = {}
                       /\ Range(dom[i].toVisit) \subseteq {Seed(i)}

\* A page at depth maxDepth that has links was processed, none of them
\* pushed, while shallower pages did push entries of depth maxDepth.
C2_Witness ==
  \E i \in DOMAIN dom :
    /\ dom[i].page.depth = maxDepth
    /\ dom[i].page.links > 0
    /\ dom[i].page.enqueued = 0
    /\ \E e \in dom[i].enq : e.depth = maxDepth

\* C3: the frontier is consumed first in, first out: the depths of the
\* entries taken off it never decrease, and no entry is taken off while a
\* shallower one is still in the frontier.
C3_BreadthFirst ==
  \A i \in DOMAIN dom :
    /\ dom[i].inOrder
    /\ \A j, k \in DOMAIN dom[i].deq : j <= k => dom[i].deq[j] <= dom[i].deq[k]
    /\ Started(i) /\ dom[i].deq # << >> =>
         \A d \in Depths(dom[i].toVisit) : dom[i].deq[Len(dom[i].deq)] <= d

\* An entry of depth 2 is being fetched after entries of depth 0 and 1 were
\* taken off, one of them skipped as seen.
C3_Witness ==
  \E i \in DOMAIN dom :
    /\ dom[i].pc = "fetch"
    /\ dom[i].depth = 2
    /\ Len(dom[i].deq) > Len(dom[i].fetched)

\* C4: the domain traversals that have started and not yet emitted
\* domain-done are never more than the concurrency; with concurrency 1 no
\* two domains are in their traversal at once.
Traversing == {i \in DOMAIN dom : dom[i].pc \notin {"idle", "settled", "done"}}
C4_ConcurrencyBound == Cardinality(Traversing) <= concurrency

\* Two traversals run side by side, each past its first await, while a
\* third domain waits for a slot.
C4_Witness ==
  /\ concurrency = 2
  /\ Cardinality({i \in Traversing : dom[i].pc # "fetch"}) = 2
  /\ nextDomain <= Len(domains)

\* C5: within one domain no URL string is fetched twice, also when it was
\* pushed onto the frontier several times before its first visit.
C5_NoRefetch ==
  \A i \in DOMAIN dom :
    \A j, k \in DOMAIN dom[i].fetched :
      j # k => dom[i].fetched[j] # dom[i].fetched[k]

\* An entry was taken off the frontier and skipped, its URL having been
\* pushed twice and visited once.
C5_Witness ==
  \E i \in DOMAIN dom :
    /\ Len(dom[i].deq) > Len(dom[i].fetched)
    /\ \E j, k \in DOMAIN dom[i].toVisit :
         j # k /\ dom[i].toVisit[j].url = dom[i].toVisit[k].url

\* The absolute URL a string of the result set stands for by itself, Null
\* when it stands for none.
AbsoluteUrl(e) == ParseUrl(e, Null)

\* C6: the result set never holds two entries that normalize to the same
\* absolute URL, whichever domains found them.
C6_UniqueResults ==
  \A e, f \in results :
    e # f /\ AbsoluteUrl(e) # Null => AbsoluteUrl(e) # AbsoluteUrl(f)

\* Two domains in traversal at once have both forwarded the same image, and
\* one page gave two references that normalize to one URL.
C6_Witness ==
  \E i, j \in Traversing :
    /\ i # j
    /\ dom[i].page.images \cap dom[j].page.images # {}
    /\ dom[i].page.images \subseteq results
    /\ Cardinality(dom[i].page.images) < Cardinality(RootDoc.images)
    /\ dom[i].page.images = {normalizeUrl(r, dom[i].page.url) : r \in RootDoc.images}


\* The pages whose response declared a type that is not HTML
NonHtmlPages == {i \in DOMAIN dom : dom[i].page.ct = "image/png"}

\* C7 as stated: a page whose content type is not HTML forwards no image,
\* pushes no link and raises pagesVisited by exactly 1, with or without a
\* renderer.
C7_AsStated ==
  \A i \in NonHtmlPages :
    /\ dom[i].page.images = {}
    /\ dom[i].page.enqueued = 0
    /\ dom[i].page.after = dom[i].page.before + 1

\* The page came as image/png, a browser was open, the render went through
\* and the images of the rendered document were forwarded.
C7_Rendered ==
  \E i \in NonHtmlPages :
    /\ dom[i].page.renderer
    /\ dom[i].page.images # {}
    /\ dom[i].page.after = dom[i].page.before + 1

\* A link to the host not-a.com was pushed onto the frontier of a.com.
C8_Suffix ==
  \E i \in DOMAIN dom :
    /\ dom[i].host = <<"a.com">>
    /\ \E e \in dom[i].enq : e.url.host = <<"not", "a.com">>

\* C8: every entry link admission pushed has scheme http or https and a
\* host that is the traversal's host or a subdomain of it; a host that only
\* ends in the host's text is never admitted.
C8_SameSite ==
  \A i \in DOMAIN dom :
    \A e \in dom[i].enq :
      /\ e.url.scheme \in {"http", "https"}
      /\ EqualOrSubdomain(e.url.host, dom[i].host)

\* C9: every job reaches a terminal status, done or failed.
C9_Terminates == <>(status \in {"done", "failed"})

\* A job is done after several domains were traversed and the browser was
\* closed.
C9_Witness ==
  /\ status = "done"
  /\ jobPc = "done"
  /\ processedDomains = Len(domains)
  /\ processedDomains >= 2
  /\ browser = "closed"

EventTypesOfDispatch == {"progress", "domain-progress", "domain-done", "done"}

\* C10: when the source list cannot be obtained (the request fails or the
\* response is not ok) the job has emitted an error event and is failed, no
\* domain was dispatched, no progress, domain-progress, domain-done or done
\* event was emitted and the result set is empty.
C10_SourceFailure ==
  srcOutcome \in {"error", "notok"} =>
    /\ status = "failed"
    /\ "error" \in emitted
    /\ events[Len(events)].type = "error"
    /\ emitted \cap EventTypesOfDispatch = {}
    /\ results = {}
    /\ nextDomain = 1
    /\ \A i \in DOMAIN dom : dom[i].pc = "idle"

\* The source answered with a status that is not ok, and the list it would
\* have given names domains.
C10_Witness ==
  /\ srcOutcome = "notok"
  /\ jobPc = "failed"
  /\ status = "failed"
  /\ Len(domains) >= 2

\* The domains whose traversal loop has ended
Ended == {i \in DOMAIN dom : dom[i].pc \in {"settled", "done"}}

\* C11: once dispatch has begun the job never fails; a domain has emitted
\* exactly one domain-done event when its traversal has ended and none
\* before, whatever failed in its pages; the k-th domain-done event carries
\* processedDomains = k; when crawlerForDomains goes on after onIdle every
\* domain of the list has emitted its event, so the values are 1..N.
C11_DomainDone ==
  /\ \A k \in DOMAIN hist.doneLog : hist.doneLog[k] = k
  /\ \A i \in DOMAIN dom : dom[i].dones = IF i \in Ended THEN 1 ELSE 0
  /\ Len(hist.doneLog) = Cardinality(Ended)
  /\ jobPc \in {"running", "closing", "done"} => status \in {"running", "done"}
  /\ jobPc \in {"closing", "done"} =>
       /\ Len(hist.doneLog) = Len(domains)
       /\ processedDomains = Len(domains)

\* Two domains ran side by side and the second of the list has ended first,
\* no page of it giving anything: its fetch failed and a warn event was sent.
C11_Witness ==
  /\ Len(domains) >= 2
  /\ hist.doneLog = <<1>>
  /\ dom[2].pc = "done"
  /\ dom[2].dones = 1
  /\ dom[1].pc = "fetch"
  /\ results = {}
  /\ "warn" \in emitted

\* C12: a done event is emitted at most once and only when every domain of
\* the list has emitted its domain-done event; from then on the count it
\* carries is the number of entries of the result set, so it was the number
\* at that moment and nothing was added since; for an empty list it is 0.
C12_DoneLast ==
  /\ Len(hist.done) <= 1
  /\ ("done" \in emitted) = (hist.done # << >>)
  /\ hist.done # << >> =>
       /\ \A i \in DOMAIN dom : i \in Ended /\ dom[i].dones = 1
       /\ Len(hist.doneLog) = Len(domains)
       /\ hist.done[1] = Cardinality(results)
       /\ events[Len(events)] = Evt("done", "", <<>>, NoUrl, Cardinality(results))
       /\ domains = << >> => hist.done[1] = 0

\* The done event of a job of several domains that found several images.
C12_Witness ==
  /\ hist.done # << >>
  /\ hist.done[1] >= 2
  /\ Len(domains) >= 2
  /\ status = "done"

\* The positions of handleDomain inside the render fallback (lines 233-238)
RenderPcs == {"newContext", "newPage", "goto", "content", "pageClose", "contextClose"}

\* C13: chromium.launch is called at most once and while no domain is
\* dispatched; a browser that was launched has browser.close called exactly
\* once by the time the job is done, and only when every traversal has
\* ended; no domain is inside a render call once close was called; without
\* a browser (not installed, or the launch failed) the job still runs, never
\* renders and never calls close.
C13_RendererLifecycle ==
  /\ hist.launches <= 1
  /\ hist.closes <= 1
  /\ jobPc = "launch" => nextDomain = 1 /\ \A i \in DOMAIN dom : dom[i].pc = "idle"
  /\ browser # "null" => hist.launches = 1
  /\ hist.launches = 0 => nextDomain = 1 \/ ~playwright
  /\ hist.closes = 1 =>
       /\ browser # "null"
       /\ nextDomain > Len(domains)
       /\ \A i \in DOMAIN dom : dom[i].pc = "done"
  /\ jobPc = "done" /\ browser # "null" => hist.closes = 1
  /\ browser = "closed" => jobPc = "done"
  /\ browser = "null" /\ jobPc \in {"running", "closing", "done"} =>
       /\ status \in {"running", "done"}
       /\ hist.closes = 0
       /\ \A i \in DOMAIN dom : dom[i].pc \notin RenderPcs /\ dom[i].contexts = 0

\* A browser was launched, pages were rendered with it, and it was closed
\* after the last domain ended.
C13_Witness ==
  /\ hist.launches = 1
  /\ hist.closes = 1
  /\ browser = "closed"
  /\ processedDomains = Len(domains)
  /\ Len(domains) >= 1
  /\ results # {}

\* C14: a domain holds a browser context only inside a render attempt, from
\* newContext to context.close: when the traversal has moved on (to the next
\* fetch, or out of the loop) every context it opened is closed, whichever
\* way the attempt ended.
C14_ContextReleased ==
  \A i \in DOMAIN dom :
    dom[i].pc \notin RenderPcs => dom[i].contexts = 0

\* A render attempt ended in the catch block after its context was opened,
\* and the traversal went on with the context still open.
C14_Leak ==
  \E i \in DOMAIN dom :
    /\ dom[i].pc \notin RenderPcs
    /\ dom[i].contexts > 0
    /\ dom[i].page.renderError \in {"render failed: newPage", "render failed: content"}

\* What connection c received after the replay
Live(c) == SubSeq(conn[c].stream, conn[c].replayed + 1, Len(conn[c].stream))

\* C15: a connection that attached and has not closed has received the log
\* as it was retained when it attached, in order, and after it exactly the
\* events sent since, each once and in order.
C15_ReplayThenLive ==
  \A c \in Conns :
    conn[c].state = "open" =>
      /\ conn[c].replayed <= EventCap
      /\ Live(c) = conn[c].since

\* A second connection attached; the first, still open, was sent nothing of
\* what the job emitted afterwards.
C15_Displaced ==
  /\ conn[1].state = "open"
  /\ conn[2].state = "open"
  /\ sseRes = 2
  /\ Live(1) # conn[1].since
  /\ Live(2) = conn[2].since
  /\ conn[2].since # << >>

\* The open connection that attached last
LatestOpen(c) ==
  /\ conn[c].state = "open"
  /\ \A b \in Conns : b > c => conn[b].state # "open"

\* The events of the sequence after that are not in the sequence before
Grown(before, after) == SubSeq(after, Len(before) + 1, Len(after))

\* C19: in every step, the events the job sends are written to the open
\* connection that attached last, whichever connections attached or closed
\* before.
C19_LatestReceives ==
  [][\A c \in Conns :
       LatestOpen(c) /\ conn'[c].state = "open" =>
         Grown(conn[c].stream, conn'[c].stream) = Grown(conn[c].since, conn'[c].since)]_vars

\* Two connections attached, the earlier one closed, and the later one,
\* still open, was not sent what the job emitted after that.
C19_Silenced ==
  /\ conn[1].state = "closed"
  /\ conn[2].state = "open"
  /\ sseRes = 0
  /\ Live(2) # conn[2].since

\* C16: for every positive multiple of 5 the pagesVisited counter of a
\* domain has reached, a domain-progress event carrying that value was
\* emitted, also when the page that brought the counter there gave no
\* content or its fetch failed.
C16_ProgressEveryFifth ==
  \A i \in DOMAIN dom :
    \A k \in 1..dom[i].pagesVisited :
      k % ProgressEvery = 0 => k \in dom[i].progress

\* The fifth page of a domain was a failed fetch: pagesVisited is 5 and no
\* domain-progress event was emitted.
C16_Skipped ==
  \E i \in DOMAIN dom :
    /\ dom[i].pagesVisited = ProgressEvery
    /\ dom[i].page.after = ProgressEvery
    /\ dom[i].page.ct = "none"
    /\ dom[i].progress = {}
    /\ "domain-progress" \notin emitted

\* C17: pagesVisited counts the URLs of the visited set: inside an iteration,
\* from seen.add to the end of the page, the set is one ahead; when the loop
\* has ended they are equal; every iteration that fetched raised the counter
\* by exactly 1, whether the page gave content or not; an entry taken off
\* the frontier and found visited changed neither.
C17_VisitedCount ==
  \A i \in DOMAIN dom :
    /\ Started(i) =>
         /\ Cardinality(dom[i].seen) = Len(dom[i].fetched)
         /\ Len(dom[i].fetched) <= Len(dom[i].deq)
         /\ dom[i].pagesVisited =
              IF dom[i].pc = "settled" THEN Cardinality(dom[i].seen)
                                       ELSE Cardinality(dom[i].seen) - 1
    /\ dom[i].page.url # NoUrl => dom[i].page.after = dom[i].page.before + 1

\* A traversal ended after a page with content, a page whose fetch failed
\* (the last) and an entry that was skipped as visited.
C17_Witness ==
  \E i \in DOMAIN dom :
    /\ dom[i].pc = "settled"
    /\ dom[i].pagesVisited >= 2
    /\ dom[i].pagesVisited = Cardinality(dom[i].seen)
    /\ Len(dom[i].deq) > Len(dom[i].fetched)
    /\ dom[i].page.ct = "none"
    /\ dom[i].enq # {}

\* The domains whose last page had its render attempt end in the catch block
RenderFailures == {i \in DOMAIN dom : dom[i].page.renderError # "none"}

\* C18: a page whose render attempt failed gave no content: no image was
\* forwarded and no link pushed, also when the plain fetch had returned a
\* short text that is not empty; a warn event was sent and the traversal
\* went on, the page counted.
C18_RenderFailureEmpty ==
  \A i \in RenderFailures :
    /\ dom[i].page.images = {}
    /\ dom[i].page.enqueued = 0
    /\ dom[i].page.after = dom[i].page.before + 1
    /\ "warn" \in emitted

\* The plain fetch returned the short text, the render attempt failed before
\* page.content() returned, and the image and the link of the short text
\* were forwarded and pushed.
C18_ShortKept ==
  \E i \in RenderFailures :
    /\ dom[i].page.renderError \in {"render failed: newContext", "render failed: newPage",
                                     "render failed: content"}
    /\ dom[i].page.images = {normalizeUrl(img, dom[i].page.url) : img \in ShortDoc.images}
    /\ dom[i].page.enqueued = Len(ShortDoc.links)
    /\ "warn" \in emitted

\* C20: within one domain no two fetched URLs stand for the same absolute
\* URL; the seed "http://"+domain and a link resolved to the root of the
\* domain are one page, fetched once.
C20_OnePagePerUrl ==
  \A i \in DOMAIN dom :
    \A j, k \in DOMAIN dom[i].fetched :
      j # k => AbsoluteUrl(dom[i].fetched[j]) # AbsoluteUrl(dom[i].fetched[k])

\* The seed was fetched, a link of it resolved to the root of the domain,
\* and the root is being fetched a second time, as the third page.
C20_RootTwice ==
  \E i \in DOMAIN dom :
    /\ dom[i].pc = "fetch"
    /\ dom[i].fetched[1] = Seed(i).url
    /\ dom[i].url # Seed(i).url
    /\ dom[i].url = AbsoluteUrl(Seed(i).url)
    /\ dom[i].pagesVisited = 2

=============================================================================
